---- MODULE Spec2Model ----
(***************************************************************************)
(* Model of data-export-cli.py: the export-job lifecycle client             *)
(* (identifier normalisation, the remote operations, the polling loop of   *)
(* track_export_until_completion and the dispatch in main).                 *)
(*                                                                         *)
(* Python strings are sequences of one-character strings, so that          *)
(* "in", startswith and f-string concatenation are computed, not assumed.  *)
(* Python's None is the one-element sequence NoneVal, which is not a       *)
(* string of characters.                                                   *)
(***************************************************************************)
EXTENDS Integers, Sequences, FiniteSets, TLC

\* ---- bounds of the model ------------------------------------------------
\* largest number of status fetches one tracking loop is followed for
MaxFetch == 3

\* ---- string literals of the source --------------------------------------
NoneVal == <<"<None>">>

ProjectsSlash == <<"p","r","o","j","e","c","t","s","/">>
V1alphaSlash == <<"v","1","a","l","p","h","a","/">>
SLocations == <<"/","l","o","c","a","t","i","o","n","s","/">>
SInstances == <<"/","i","n","s","t","a","n","c","e","s","/">>
SDataExports == <<"/","d","a","t","a","E","x","p","o","r","t","s">>
SCancel == <<":","c","a","n","c","e","l">>
SFetchSA == <<":","f","e","t","c","h","S","e","r","v","i","c","e","A","c","c","o","u","n","t","F","o","r","D","a","t","a","E","x","p","o","r","t">>
SNone == <<"N","o","n","e">>
SHttpsChronicle == <<"h","t","t","p","s",":","/","/","c","h","r","o","n","i","c","l","e",".">>
SGoogleapis == <<".","g","o","o","g","l","e","a","p","i","s",".","c","o","m">>
SSlash == <<"/">>

\* ---- values the inputs are drawn from -----------------------------------
ProjectVal == <<"p">>
LocationVal == <<"u","s">>
InstanceVal == <<"i">>
BucketVal == <<"b">>
ShortId == <<"a">>
LongId ==
    ProjectsSlash \o ProjectVal \o SLocations \o LocationVal
        \o SInstances \o InstanceVal \o SDataExports \o SSlash \o ShortId
VersionedId == V1alphaSlash \o LongId
\* what os.getenv can give for one setting: unset, set but empty, set
EnvValues(v) == {NoneVal, <<>>, v}
\* what --track / --cancel can hold: None (flag absent) or the string given
IdArgs == {NoneVal, <<>>, ShortId, LongId, VersionedId}
\* the "name" of a create response: absent (None) or a resource name
CreatedNames == {NoneVal, ShortId, LongId, VersionedId}

\* ---- Python helpers ------------------------------------------------------
\* truth value of a str-or-None
Truthy(x) == x # NoneVal /\ x # <<>>
\* "{x}" inside an f-string
Fmt(x) == IF x = NoneVal THEN SNone ELSE x
\* str.startswith
StartsWith(s, p) == Len(s) >= Len(p) /\ SubSeq(s, 1, Len(p)) = p
\* p in s
Contains(s, p) ==
    \E i \in 1..(Len(s) - Len(p) + 1) : SubSeq(s, i, i + Len(p) - 1) = p

\* ---- class Config --------------------------------------------------------
Configs ==
    [PROJECT_ID : EnvValues(ProjectVal), LOCATION : {NoneVal, LocationVal},
     INSTANCE_ID : EnvValues(InstanceVal), GCS_BUCKET : EnvValues(BucketVal)]
API_BASE_URL(c) == SHttpsChronicle \o Fmt(c.LOCATION) \o SGoogleapis
INSTANCE_BASE_PATH(c) ==
    V1alphaSlash \o ProjectsSlash \o Fmt(c.PROJECT_ID) \o SLocations
        \o Fmt(c.LOCATION) \o SInstances \o Fmt(c.INSTANCE_ID)

\* ---- _normalize_id -------------------------------------------------------
\* variant: the version prefix added to every id that contains "projects/"
normalize_id_prefix_all(c, export_id) ==
    IF ~Contains(export_id, ProjectsSlash)
    THEN INSTANCE_BASE_PATH(c) \o SDataExports \o SSlash \o export_id
    ELSE V1alphaSlash \o export_id
\* variant: a short id put under the instance path without its version
normalize_id_unversioned(c, export_id) ==
    IF ~Contains(export_id, ProjectsSlash)
    THEN SubSeq(INSTANCE_BASE_PATH(c), Len(V1alphaSlash) + 1,
                Len(INSTANCE_BASE_PATH(c)))
           \o SDataExports \o SSlash \o export_id
    ELSE IF StartsWith(export_id, ProjectsSlash)
         THEN V1alphaSlash \o export_id
         ELSE export_id
normalize_id(c, export_id) ==
    IF ~Contains(export_id, ProjectsSlash)
    THEN INSTANCE_BASE_PATH(c) \o SDataExports \o SSlash \o export_id
    ELSE IF StartsWith(export_id, ProjectsSlash)
         THEN V1alphaSlash \o export_id
         ELSE export_id

\* ---- datetime: now(utc), timedelta(days=...), strftime -------------------
\* largest --days value of the everyday range the create payload is built
\* for; FarDays are values that reach before year 1000 and before year 1
MaxDays == 3
FarDays == {400000, 800000}
\* a datetime is its day number (days since 1970-01-01), the second of the
\* day and the microsecond; the proleptic Gregorian calendar turns day
\* numbers into dates and back
days_from_civil(y, m, d) ==
    LET yy == IF m <= 2 THEN y - 1 ELSE y
        era == yy \div 400
        yoe == yy - era * 400
        mp == IF m > 2 THEN m - 3 ELSE m + 9
        doy == (153 * mp + 2) \div 5 + d - 1
        doe == yoe * 365 + yoe \div 4 - yoe \div 100 + doy
    IN era * 146097 + doe - 719468
civil_from_days(z) ==
    LET zz == z + 719468
        era == zz \div 146097
        doe == zz - era * 146097
        yoe == (doe - doe \div 1460 + doe \div 36524 - doe \div 146096) \div 365
        doy == doe - (365 * yoe + yoe \div 4 - yoe \div 100)
        mp == (5 * doy + 2) \div 153
        d == doy - (153 * mp + 2) \div 5 + 1
        m == IF mp < 10 THEN mp + 3 ELSE mp - 9
        y == yoe + era * 400 + (IF m <= 2 THEN 1 ELSE 0)
    IN [y |-> y, m |-> m, d |-> d]
Datetime(y, m, d, hh, mm, ss, us) ==
    [ord |-> days_from_civil(y, m, d), sec |-> hh * 3600 + mm * 60 + ss,
     us |-> us]
\* day number of datetime.min, 0001-01-01
MinOrd == days_from_civil(1, 1, 1)
\* the subtraction raises OverflowError when the result is before datetime.min
SubDaysOverflows(dt, days_back) == dt.ord - days_back < MinOrd
\* end_time_dt - datetime.timedelta(days=days_back)
SubDays(dt, days) == [dt EXCEPT !.ord = @ - days]
DigitChar == <<"0", "1", "2", "3", "4", "5", "6", "7", "8", "9">>
RECURSIVE Pad(_, _)
\* n written in w digits, zero padded
Pad(n, w) ==
    IF w = 0 THEN <<>> ELSE Pad(n \div 10, w - 1) \o <<DigitChar[(n % 10) + 1]>>
RECURSIVE Digits(_)
\* n written without padding
Digits(n) ==
    IF n < 10 THEN <<DigitChar[n + 1]>>
    ELSE Digits(n \div 10) \o <<DigitChar[(n % 10) + 1]>>
\* %Y: four digits from year 1000 on; for earlier years the C library
\* decides whether the year is zero padded (glibc does not pad)
Year(y, pads) == IF y >= 1000 \/ pads THEN Pad(y, 4) ELSE Digits(y)
\* dt.strftime("%Y-%m-%dT%H:%M:%SZ")
strftime(dt, pads) ==
    LET c == civil_from_days(dt.ord) IN
    Year(c.y, pads) \o <<"-">> \o Pad(c.m, 2) \o <<"-">> \o Pad(c.d, 2)
      \o <<"T">> \o Pad(dt.sec \div 3600, 2) \o <<":">>
      \o Pad((dt.sec \div 60) % 60, 2) \o <<":">> \o Pad(dt.sec % 60, 2)
      \o <<"Z">>
\* values of datetime.now(utc) the payload is built at
Nows ==
    {Datetime(2026, 11, 1, 12, 8, 59, 999999),
     Datetime(2026, 1, 1, 0, 0, 0, 1),
     Datetime(2026, 3, 1, 23, 59, 59, 0),
     Datetime(2024, 3, 1, 0, 0, 0, 500000),
     Datetime(2000, 3, 2, 6, 30, 0, 0),
     Datetime(2100, 3, 1, 0, 0, 1, 0)}
DefaultNow == Datetime(2026, 11, 1, 12, 8, 59, 999999)

\* ---- the create payload --------------------------------------------------
SLogTypes == <<"/","l","o","g","T","y","p","e","s","/">>
OKTA == <<"O","K","T","A">>
WINEVTLOG == <<"W","I","N","E","V","T","L","O","G">>
\* None for a list argument (a list holds strings, so None is kept apart)
NoneList == <<NoneVal>>
\* values of --log-types: absent, and lists of log types
LogTypeLists ==
    {NoneList, <<>>, <<OKTA>>, <<OKTA, WINEVTLOG>>, <<WINEVTLOG, OKTA>>}
TruthyList(l) == l # NoneList /\ l # <<>>
LogTypePath(c, lt) ==
    ProjectsSlash \o Fmt(c.PROJECT_ID) \o SLocations \o Fmt(c.LOCATION)
        \o SInstances \o Fmt(c.INSTANCE_ID) \o SLogTypes \o lt
\* no failed response yet: nothing received and nothing printed by main's
\* HTTPError clause
NoDetail == [body |-> <<>>, printed |-> <<>>]

NoBody ==
    [startTime |-> <<>>, endTime |-> <<>>, gcsBucket |-> <<>>,
     hasIncludeLogTypes |-> FALSE, includeLogTypes |-> <<>>]
\* variant: the key is added whenever --log-types is given, even when empty
HasIncludeIfGiven(lts) == lts # NoneList
\* if log_types: payload["includeLogTypes"] = ...
HasInclude(lts) == TruthyList(lts)
\* the JSON body create_data_export posts
CreatePayload(c, now_dt, days_back, lts, pads) ==
    [startTime |-> strftime(SubDays(now_dt, days_back), pads),
     endTime |-> strftime(now_dt, pads),
     gcsBucket |-> c.GCS_BUCKET,
     hasIncludeLogTypes |-> HasInclude(lts),
     includeLogTypes |->
       IF HasInclude(lts)
       THEN [i \in 1..Len(lts) |-> LogTypePath(c, lts[i])]
       ELSE <<>>]

\* ---- status payloads -----------------------------------------------------
NON_TERMINAL == {"IN_QUEUE", "PROCESSING", "PENDING"}
TERMINAL_FAILURE == {"FINISHED_FAILURE", "CANCELLED"}
JsonNull == "null"
\* values of the "stage" field the remote may send
StageValues ==
    NON_TERMINAL \cup TERMINAL_FAILURE
        \cup {"FINISHED_SUCCESS", "STAGE_UNSPECIFIED", JsonNull}
Details == {"d1", "d2"}
\* status: is "dataExportStatus" an object, absent, or null;
\* hasStage: does the object have a "stage" key; detail: the rest of the body
Payloads ==
    [status : {"object"}, hasStage : {TRUE}, stage : StageValues,
     detail : Details]
    \cup [status : {"object", "absent", "null"}, hasStage : {FALSE},
          stage : {""}, detail : Details]
NoPayload == [status |-> "none", hasStage |-> FALSE, stage |-> "", detail |-> ""]
\* status_data.get("dataExportStatus", {}).get("stage", "UNKNOWN");
\* a null dataExportStatus has no .get: AttributeError
StageRaises(p) == p.status = "null"
StageOf(p) ==
    IF p.status = "object" /\ p.hasStage THEN p.stage ELSE "UNKNOWN"

\* variants of the if/elif chain, used to show what the properties detect
ClassifyPendingUnknown(state) ==
    IF state = "FINISHED_SUCCESS" THEN "success"
    ELSE IF state \in {"FINISHED_FAILURE", "CANCELLED"} THEN "failure"
    ELSE IF state \in {"IN_QUEUE", "PROCESSING"} THEN "sleep"
    ELSE "anomaly"
ClassifySuccessPollsOn(state) ==
    IF state \in {"FINISHED_FAILURE", "CANCELLED"} THEN "failure"
    ELSE IF state \in {"IN_QUEUE", "PROCESSING", "PENDING", "FINISHED_SUCCESS"}
    THEN "sleep"
    ELSE "anomaly"
ClassifyUnknownTransient(state) ==
    IF state = "FINISHED_SUCCESS" THEN "success"
    ELSE IF state \in {"FINISHED_FAILURE", "CANCELLED"} THEN "failure"
    ELSE "sleep"
ClassifyCancelledSuccess(state) ==
    IF state \in {"FINISHED_SUCCESS", "CANCELLED"} THEN "success"
    ELSE IF state = "FINISHED_FAILURE" THEN "failure"
    ELSE IF state \in {"IN_QUEUE", "PROCESSING", "PENDING"} THEN "sleep"
    ELSE "anomaly"
\* the if/elif chain of the polling loop
Classify(state) ==
    IF state = "FINISHED_SUCCESS" THEN "success"
    ELSE IF state \in {"FINISHED_FAILURE", "CANCELLED"} THEN "failure"
    ELSE IF state \in {"IN_QUEUE", "PROCESSING", "PENDING"} THEN "sleep"
    ELSE "anomaly"
\* what the branch prints besides the status line
BranchReport(branch, p) ==
    IF branch = "success" THEN <<[kind |-> "success", data |-> NoPayload]>>
    ELSE IF branch = "failure" THEN <<[kind |-> "failure", data |-> p]>>
    ELSE IF branch = "anomaly" THEN <<[kind |-> "anomaly", data |-> p]>>
    ELSE <<>>

\* ---- state ---------------------------------------------------------------
VARIABLES
    cfg,        \* class Config, read from the environment at import
    args,       \* the parsed command line
    pc,         \* where main is
    exit,       \* "running", "clean" (main returned), "usage" (argparse
                \* exited), "uncaught" (an exception left main)
    session,    \* "none", "ok" or "failed": get_authorized_session
    requests,   \* every request sent on the session, in order
    reports,    \* everything printed that the claims are about, in order
    tracker,    \* "idle", "running", or how track_export_until_completion
                \* ended: "success", "failure", "anomaly", "stopped", "raised"
    trackId,    \* export_id passed to track_export_until_completion
    created,    \* "no", "ok" (create_data_export returned), "failed"
    obs,        \* the status payloads the polling loop has observed
    nFetch,     \* status fetches issued by the polling loop
    nSleep,     \* time.sleep(30) calls completed by the polling loop
    new_id,     \* what create_data_export returned (None before it returns)
    raised,     \* the exception raised inside main's try block, or "none"
    errDetail,  \* the body of the failed response, and what main's
                \* HTTPError clause printed of it after "API Error"
    payload,    \* the JSON body of the create POST (NoBody before it)
    days,       \* args.days
    log_types,  \* args.log_types
    now,        \* datetime.now(utc) at the create call
    remote,     \* the stage the remote job is in
    raw,        \* an export id given to _normalize_id on its own
    norm,       \* _normalize_id(raw), None while not computed
    norm2       \* _normalize_id(norm), None while not computed

vars ==
    <<cfg, args, pc, exit, session, requests, reports, tracker, trackId,
      created, obs, nFetch, nSleep, new_id, raised, errDetail, payload, days,
      log_types, now, remote, raw, norm, norm2>>
\* what the operations of main only read, or do not touch
envVars == <<days, log_types, now, remote, raw, norm, norm2>>

ArgSets ==
    [create : BOOLEAN, track : IdArgs, fetch_sa : BOOLEAN, list : BOOLEAN,
     cancel : IdArgs]

Init ==
    /\ cfg \in Configs
    /\ args \in ArgSets
    /\ pc = "parse_args"
    /\ exit = "running"
    /\ session = "none"
    /\ requests = <<>>
    /\ reports = <<>>
    /\ tracker = "idle"
    /\ trackId = NoneVal
    /\ created = "no"
    /\ obs = <<>>
    /\ nFetch = 0
    /\ nSleep = 0
    /\ new_id = NoneVal
    /\ raised = "none"
    /\ errDetail = NoDetail
    /\ payload = NoBody
    /\ days = 1
    /\ log_types = NoneList
    /\ now = DefaultNow
    /\ remote = "IN_QUEUE"
    /\ raw = <<>>
    /\ norm = NoneVal
    /\ norm2 = NoneVal

\* ---- requests and exceptions ---------------------------------------------
Req(method, url, op) == [method |-> method, url |-> url, op |-> op]
Report(kind) == [kind |-> kind, data |-> NoPayload]

\* variant: main without its "except Exception" clause
CaughtByMainHTTPOnly(exc) == exc = "HTTPError"
\* the except clauses of main: HTTPError, then Exception. KeyboardInterrupt
\* is a BaseException and is caught by neither.
CaughtByMain(exc) == exc # "KeyboardInterrupt"
main_except(exc) ==
    IF exc = "HTTPError" THEN Report("api_error") ELSE Report("error")
\* ---- HTTP error bodies and what main prints of them ----------------------
\* A body is a sequence of tokens of its text. JSON text is a string token
\* or an object with one key: { "key" : value }.
StringTokens == {"\"error\"", "\"message\"", "\"forbidden\"", "\"quota\""}
BodyForbidden ==
    <<"{", "\"error\"", ":", "{", "\"message\"", ":", "\"forbidden\"", "}",
      "}">>
BodyQuota == <<"{", "\"message\"", ":", "\"quota\"", "}">>
BodyScalar == <<"\"forbidden\"">>
BodyTruncated == <<"{", "\"error\"", ":", "{", "\"message\"", ":">>
BodyHtml == <<"<html>", "Forbidden", "</html>">>
BodyEmpty == <<>>
ErrorBodies ==
    {BodyForbidden, BodyQuota, BodyScalar, BodyTruncated, BodyHtml, BodyEmpty}
\* e.response.json() succeeds
RECURSIVE IsJson(_)
IsJson(ts) ==
    \/ Len(ts) = 1 /\ ts[1] \in StringTokens
    \/ /\ Len(ts) >= 5
       /\ ts[1] = "{"
       /\ ts[2] \in StringTokens
       /\ ts[3] = ":"
       /\ ts[Len(ts)] = "}"
       /\ IsJson(SubSeq(ts, 4, Len(ts) - 1))
\* json.dumps(e.response.json(), indent=2) of JSON text ts, at nesting depth
RECURSIVE Indent(_)
Indent(depth) == IF depth = 0 THEN <<>> ELSE <<"  ">> \o Indent(depth - 1)
RECURSIVE DumpsIndent2(_, _)
DumpsIndent2(ts, depth) ==
    IF Len(ts) = 1
    THEN ts
    ELSE <<"{", "\n">> \o Indent(depth + 1) \o <<ts[2], ": ">>
           \o DumpsIndent2(SubSeq(ts, 4, Len(ts) - 1), depth + 1)
           \o <<"\n">> \o Indent(depth) \o <<"}">>
\* variant: the handler gives up on the body when it is not JSON
main_detailsJsonOnly(exc, body) ==
    IF exc = "HTTPError" /\ IsJson(body)
    THEN <<"Details: ">> \o DumpsIndent2(body, 0)
    ELSE <<>>
\* the lines main's HTTPError clause prints after "API Error: ..."
main_details(exc, body) ==
    IF exc # "HTTPError" THEN <<>>
    ELSE IF IsJson(body)
         THEN <<"Details: ">> \o DumpsIndent2(body, 0)
         ELSE <<"API Response: ">> \o body

\* an exception raised inside main's try block, after printing `printed`
Raise(exc, printed) ==
    /\ pc' = "done"
    /\ raised' = exc
    /\ \E body \in (IF exc = "HTTPError" THEN ErrorBodies ELSE {<<>>}) :
         errDetail' = [body |-> body, printed |-> main_details(exc, body)]
    /\ IF CaughtByMain(exc)
       THEN /\ reports' = reports \o printed \o <<main_except(exc)>>
            /\ exit' = "clean"
       ELSE /\ reports' = reports \o printed
            /\ exit' = "uncaught"
\* how session.get / session.post + raise_for_status + resp.json() can end
CallErrors == {"HTTPError", "ConnectionError", "JSONDecodeError"}
Interrupts == {"KeyboardInterrupt"}

\* ---- main: argument parsing and configuration ----------------------------
\* number of members of the mutually exclusive group that were given
NumActions(a) ==
    (IF a.create THEN 1 ELSE 0) + (IF a.track # NoneVal THEN 1 ELSE 0)
    + (IF a.fetch_sa THEN 1 ELSE 0) + (IF a.list THEN 1 ELSE 0)
    + (IF a.cancel # NoneVal THEN 1 ELSE 0)

parse_args ==
    /\ pc = "parse_args"
    /\ IF NumActions(args) > 1
       THEN pc' = "done" /\ exit' = "usage"
       ELSE pc' = "check_config" /\ exit' = exit
    /\ UNCHANGED <<cfg, args, session, requests, reports, tracker, trackId,
                   created, obs, nFetch, nSleep, new_id, raised, errDetail>>
    /\ UNCHANGED <<payload, envVars>>

\* variant: the bucket left out of the check
ConfigCompleteNoBucket(c) == Truthy(c.PROJECT_ID) /\ Truthy(c.INSTANCE_ID)
ConfigComplete(c) ==
    Truthy(c.PROJECT_ID) /\ Truthy(c.INSTANCE_ID) /\ Truthy(c.GCS_BUCKET)

check_config ==
    /\ pc = "check_config"
    /\ IF ~ConfigComplete(cfg)
       THEN /\ reports' = Append(reports, Report("config_error"))
            /\ pc' = "done"
            /\ exit' = "clean"
       ELSE /\ pc' = "get_authorized_session"
            /\ UNCHANGED <<reports, exit>>
    /\ UNCHANGED <<raised, errDetail>>
    /\ UNCHANGED <<cfg, args, session, requests, tracker, trackId, created,
                   obs, nFetch, nSleep, new_id>>
    /\ UNCHANGED <<payload, envVars>>

get_authorized_session ==
    /\ pc = "get_authorized_session"
    /\ \E ok \in BOOLEAN :
         IF ok
         THEN /\ session' = "ok"
              /\ pc' = "dispatch"
              /\ UNCHANGED <<reports, exit, raised, errDetail>>
         ELSE /\ session' = "failed"
              /\ Raise("ValueError", <<Report("auth_error")>>)
    /\ UNCHANGED <<cfg, args, requests, tracker, trackId, created, obs,
                   nFetch, nSleep, new_id>>
    /\ UNCHANGED <<payload, envVars>>

\* ---- main: the if/elif chain that picks the action -----------------------
SelectAction(a) ==
    IF a.fetch_sa THEN "fetch_service_account"
    ELSE IF a.list THEN "list_data_exports"
    ELSE IF Truthy(a.cancel) THEN "cancel_data_export"
    ELSE IF Truthy(a.track) THEN "track_export_until_completion"
    ELSE "create_data_export"

\* variant: the tracker started on the command line's id, not on its argument
StartTrackingArg(id) ==
    /\ tracker' = "running"
    /\ trackId' = args.track
    /\ pc' = "track_fetch"
\* entering track_export_until_completion(session, id)
StartTracking(id) ==
    /\ tracker' = "running"
    /\ trackId' = id
    /\ pc' = "track_fetch"

dispatch ==
    /\ pc = "dispatch"
    /\ IF SelectAction(args) = "track_export_until_completion"
       THEN StartTracking(args.track)
       ELSE pc' = SelectAction(args) /\ UNCHANGED <<tracker, trackId>>
    /\ UNCHANGED <<cfg, args, exit, session, requests, reports, created,
                   obs, nFetch, nSleep, new_id, raised, errDetail>>
    /\ UNCHANGED <<payload, envVars>>

\* ---- API functions -------------------------------------------------------
FetchSAUrl(c) ==
    API_BASE_URL(c) \o SSlash \o INSTANCE_BASE_PATH(c) \o SDataExports
        \o SFetchSA
DataExportsUrl(c) ==
    API_BASE_URL(c) \o SSlash \o INSTANCE_BASE_PATH(c) \o SDataExports
CancelUrl(c, export_id) ==
    API_BASE_URL(c) \o SSlash \o normalize_id(c, export_id) \o SCancel
StatusUrl(c, export_id) ==
    API_BASE_URL(c) \o SSlash \o normalize_id(c, export_id)

fetch_service_account ==
    /\ pc = "fetch_service_account"
    /\ requests' = Append(requests, Req("GET", FetchSAUrl(cfg), "fetch_sa"))
    /\ \/ /\ pc' = "done"
          /\ exit' = "clean"
          /\ reports' = Append(reports, Report("service_account"))
          /\ UNCHANGED <<raised, errDetail>>
       \/ \E exc \in CallErrors \cup Interrupts : Raise(exc, <<>>)
    /\ UNCHANGED <<cfg, args, session, tracker, trackId, created, obs,
                   nFetch, nSleep, new_id>>
    /\ UNCHANGED <<payload, envVars>>

list_data_exports ==
    /\ pc = "list_data_exports"
    /\ requests' = Append(requests, Req("GET", DataExportsUrl(cfg), "list"))
    /\ \/ /\ pc' = "done"
          /\ exit' = "clean"
          /\ reports' = Append(reports, Report("exports_listed"))
          /\ UNCHANGED <<raised, errDetail>>
       \/ \E exc \in CallErrors \cup Interrupts : Raise(exc, <<>>)
    /\ UNCHANGED <<cfg, args, session, tracker, trackId, created, obs,
                   nFetch, nSleep, new_id>>
    /\ UNCHANGED <<payload, envVars>>

\* cancel_data_export up to its POST; the POST's body is not read
cancel_data_export ==
    /\ pc = "cancel_data_export"
    /\ requests' =
         Append(requests, Req("POST", CancelUrl(cfg, args.cancel), "cancel"))
    /\ \/ /\ pc' = "cancel_status"
          /\ reports' = Append(reports, Report("cancel_issued"))
          /\ UNCHANGED <<exit, raised, errDetail>>
       \/ \E exc \in {"HTTPError", "ConnectionError"} \cup Interrupts :
            Raise(exc, <<>>)
    /\ UNCHANGED <<cfg, args, session, tracker, trackId, created, obs,
                   nFetch, nSleep, new_id>>
    /\ UNCHANGED <<payload, envVars>>

\* variant: cancel_data_export confirms by sending the cancel a second time
cancel_status_reposts ==
    /\ pc = "cancel_status"
    /\ requests' =
         Append(requests, Req("POST", CancelUrl(cfg, args.cancel), "cancel"))
    /\ \/ /\ pc' = "done"
          /\ exit' = "clean"
          /\ UNCHANGED <<reports, raised, errDetail>>
       \/ \E exc \in CallErrors \cup Interrupts : Raise(exc, <<>>)
    /\ UNCHANGED <<cfg, args, session, tracker, trackId, created, obs,
                   nFetch, nSleep, new_id>>
    /\ UNCHANGED <<payload, envVars>>
\* the get_data_export_status call that ends cancel_data_export;
\* its result is dropped
cancel_status ==
    /\ pc = "cancel_status"
    /\ requests' =
         Append(requests, Req("GET", StatusUrl(cfg, args.cancel), "status"))
    /\ \/ /\ pc' = "done"
          /\ exit' = "clean"
          /\ UNCHANGED <<reports, raised, errDetail>>
       \/ \E exc \in CallErrors \cup Interrupts : Raise(exc, <<>>)
    /\ UNCHANGED <<cfg, args, session, tracker, trackId, created, obs,
                   nFetch, nSleep, new_id>>
    /\ UNCHANGED <<payload, envVars>>

\* create_data_export, and on its return the call of the tracker on new_id
create_data_export ==
    /\ pc = "create_data_export"
    /\ IF SubDaysOverflows(now, days)
       THEN \* line 125 raises before anything is sent
            /\ created' = "failed"
            /\ Raise("OverflowError", <<>>)
            /\ UNCHANGED <<payload, requests, tracker, trackId, new_id>>
       ELSE /\ \E pads \in BOOLEAN :
                 payload' = CreatePayload(cfg, now, days, log_types, pads)
            /\ requests' =
                 Append(requests, Req("POST", DataExportsUrl(cfg), "create"))
            /\ \/ \E name \in CreatedNames :
                    /\ created' = "ok"
                    /\ new_id' = name
                    /\ reports' = Append(reports, Report("job_created"))
                    /\ StartTracking(name)
                    /\ UNCHANGED <<exit, raised, errDetail>>
               \/ \E exc \in CallErrors \cup Interrupts :
                    /\ created' = "failed"
                    /\ Raise(exc, <<>>)
                    /\ UNCHANGED <<tracker, trackId, new_id>>
    /\ UNCHANGED <<cfg, args, session, obs, nFetch, nSleep>>
    /\ UNCHANGED envVars

\* ---- track_export_until_completion ---------------------------------------
\* variant: the interrupt is reported but the loop goes on
TrackingStoppedPollsOn ==
    /\ tracker' = "stopped"
    /\ reports' = Append(reports, Report("tracking_stopped"))
    /\ pc' = "track_fetch"
    /\ exit' = exit
    /\ UNCHANGED <<raised, errDetail>>
\* the except KeyboardInterrupt clause of the tracker
TrackingStopped ==
    /\ tracker' = "stopped"
    /\ reports' = Append(reports, Report("tracking_stopped"))
    /\ pc' = "done"
    /\ exit' = "clean"
    /\ UNCHANGED <<raised, errDetail>>

\* variant: a failed fetch is tried again
TrackerRetries(exc) ==
    /\ raised' = exc
    /\ pc' = "track_fetch"
    /\ UNCHANGED <<tracker, reports, exit, errDetail>>
\* an exception other than KeyboardInterrupt leaves the tracker
TrackerRaises(exc) ==
    /\ tracker' = "raised"
    /\ Raise(exc, <<>>)

\* one iteration of the loop up to the sleep: get_data_export_status, the
\* status line, and the branch taken on the stage
track_fetch ==
    /\ pc = "track_fetch"
    /\ nFetch < MaxFetch
    /\ IF trackId = NoneVal
       THEN \* "projects/" not in None: TypeError, before any request
            /\ TrackerRaises("TypeError")
            /\ UNCHANGED <<requests, obs, nFetch>>
       ELSE /\ requests' =
                 Append(requests, Req("GET", StatusUrl(cfg, trackId), "status"))
            /\ nFetch' = nFetch + 1
            /\ \/ \E p \in Payloads :
                    IF StageRaises(p)
                    THEN TrackerRaises("AttributeError") /\ obs' = obs
                    ELSE LET branch == Classify(StageOf(p)) IN
                         /\ obs' = Append(obs, p)
                         /\ reports' =
                              reports \o <<[kind |-> "status", data |-> p]>>
                                  \o BranchReport(branch, p)
                         /\ IF branch = "sleep"
                            THEN /\ pc' = "track_sleep"
                                 /\ UNCHANGED <<tracker, exit, raised, errDetail>>
                            ELSE /\ tracker' = branch
                                 /\ pc' = "done"
                                 /\ exit' = "clean"
                                 /\ UNCHANGED <<raised, errDetail>>
               \/ \E exc \in CallErrors : TrackerRaises(exc) /\ obs' = obs
               \/ TrackingStopped /\ obs' = obs
    /\ UNCHANGED <<cfg, args, session, trackId, created, nSleep, new_id>>
    /\ UNCHANGED <<payload, envVars>>

\* variant: a retry limit, the loop gives up after its second sleep
track_sleep_limited ==
    /\ pc = "track_sleep"
    /\ \/ /\ nSleep < 1
          /\ pc' = "track_fetch"
          /\ nSleep' = nSleep + 1
          /\ UNCHANGED <<tracker, reports, exit, raised, errDetail>>
       \/ /\ nSleep >= 1
          /\ tracker' = "failure"
          /\ reports' = Append(reports, Report("failure"))
          /\ pc' = "done"
          /\ exit' = "clean"
          /\ UNCHANGED <<nSleep, raised, errDetail>>
       \/ TrackingStopped /\ nSleep' = nSleep
    /\ UNCHANGED <<cfg, args, session, requests, trackId, created, obs,
                   nFetch, new_id>>
    /\ UNCHANGED <<payload, envVars>>
\* time.sleep(30)
track_sleep ==
    /\ pc = "track_sleep"
    /\ \/ /\ pc' = "track_fetch"
          /\ nSleep' = nSleep + 1
          /\ UNCHANGED <<tracker, reports, exit, raised, errDetail>>
       \/ TrackingStopped /\ nSleep' = nSleep
    /\ UNCHANGED <<cfg, args, session, requests, trackId, created, obs,
                   nFetch, new_id>>
    /\ UNCHANGED <<payload, envVars>>

Next ==
    \/ parse_args
    \/ check_config
    \/ get_authorized_session
    \/ dispatch
    \/ fetch_service_account
    \/ list_data_exports
    \/ cancel_data_export
    \/ cancel_status
    \/ create_data_export
    \/ track_fetch
    \/ track_sleep

Spec == Init /\ [][Next]_vars


\* ---- _normalize_id on its own ---------------------------------------------
\* largest number of pieces a raw id is put together from
MaxTokens == 3
RawTokens ==
    {ProjectsSlash, V1alphaSlash, <<"a">>, <<"/">>,
     <<"p", "r", "o", "j", "e", "c", "t", "s">>}
RECURSIVE Concat(_)
Concat(ts) == IF ts = <<>> THEN <<>> ELSE Head(ts) \o Concat(Tail(ts))
RawIds ==
    {Concat(ts) : ts \in UNION {[1..n -> RawTokens] : n \in 0..MaxTokens}}
mainVars ==
    <<cfg, args, pc, exit, session, requests, reports, tracker, trackId,
      created, obs, nFetch, nSleep, new_id, raised, errDetail, payload>>
NoArgs ==
    [create |-> FALSE, track |-> NoneVal, fetch_sa |-> FALSE, list |-> FALSE,
     cancel |-> NoneVal]
InitNormalize ==
    /\ cfg \in Configs
    /\ args = NoArgs
    /\ pc = "normalize_id"
    /\ exit = "running"
    /\ session = "none"
    /\ requests = <<>>
    /\ reports = <<>>
    /\ tracker = "idle"
    /\ trackId = NoneVal
    /\ created = "no"
    /\ obs = <<>>
    /\ nFetch = 0
    /\ nSleep = 0
    /\ new_id = NoneVal
    /\ raised = "none"
    /\ errDetail = NoDetail
    /\ payload = NoBody
    /\ days = 1
    /\ log_types = NoneList
    /\ now = DefaultNow
    /\ remote = "IN_QUEUE"
    /\ raw \in RawIds
    /\ norm = NoneVal
    /\ norm2 = NoneVal
\* _normalize_id(raw)
normalize_raw ==
    /\ pc = "normalize_id"
    /\ norm = NoneVal
    /\ norm' = normalize_id(cfg, raw)
    /\ UNCHANGED <<mainVars, days, log_types, now, remote, raw, norm2>>
\* _normalize_id applied to its own result
normalize_result ==
    /\ pc = "normalize_id"
    /\ norm # NoneVal
    /\ norm2 = NoneVal
    /\ norm2' = normalize_id(cfg, norm)
    /\ UNCHANGED <<mainVars, days, log_types, now, remote, raw, norm>>
NextNormalize == normalize_raw \/ normalize_result
SpecNormalize == InitNormalize /\ [][NextNormalize]_vars

\* ---- create_data_export over its inputs ------------------------------------
InitCreate ==
    /\ cfg \in {c \in Configs : ConfigComplete(c)}
    /\ args = NoArgs
    /\ pc = "create_data_export"
    /\ exit = "running"
    /\ session = "ok"
    /\ requests = <<>>
    /\ reports = <<>>
    /\ tracker = "idle"
    /\ trackId = NoneVal
    /\ created = "no"
    /\ obs = <<>>
    /\ nFetch = 0
    /\ nSleep = 0
    /\ new_id = NoneVal
    /\ raised = "none"
    /\ errDetail = NoDetail
    /\ payload = NoBody
    /\ days \in 0..MaxDays \cup FarDays
    /\ log_types \in LogTypeLists
    /\ now \in Nows
    /\ remote = "IN_QUEUE"
    /\ raw = <<>>
    /\ norm = NoneVal
    /\ norm2 = NoneVal
SpecCreate == InitCreate /\ [][create_data_export]_vars

\* ---- the tracker against a remote job --------------------------------------
\* the remote service moves the job from stage to stage as it likes, for as
\* long as the invocation may still read the stage
remote_change ==
    /\ pc \in {"create_data_export", "track_fetch", "track_sleep"}
    /\ remote' \in StageValues \ {remote}
    /\ UNCHANGED <<mainVars, days, log_types, now, raw, norm, norm2>>
\* a status fetch whose response, when it has one, carries the job's stage;
\* the last fetch the model follows waits for a stage that ends the loop; the
\* rest of the body is not what the loop decides on
track_fetch_remote ==
    /\ nFetch < MaxFetch - 1 \/ remote \notin NON_TERMINAL
    /\ track_fetch
    /\ Len(obs') > Len(obs) =>
         LET p == obs'[Len(obs')] IN
         p.status = "object" /\ p.hasStage /\ p.stage = remote
             /\ p.detail = "d1"
InitLive ==
    /\ Init
    /\ ConfigComplete(cfg)
    /\ cfg.LOCATION = LocationVal
    /\ NumActions(args) <= 1
NextLive ==
    \/ parse_args
    \/ check_config
    \/ get_authorized_session
    \/ dispatch
    \/ fetch_service_account
    \/ list_data_exports
    \/ cancel_data_export
    \/ cancel_status
    \/ create_data_export
    \/ track_fetch_remote
    \/ track_sleep
    \/ remote_change
\* main is one thread: whatever statement it is at, it gets executed
SpecLive ==
    /\ InitLive
    /\ [][NextLive]_vars
    /\ WF_vars(parse_args)
    /\ WF_vars(check_config)
    /\ WF_vars(get_authorized_session)
    /\ WF_vars(dispatch)
    /\ WF_vars(fetch_service_account)
    /\ WF_vars(list_data_exports)
    /\ WF_vars(cancel_data_export)
    /\ WF_vars(cancel_status)
    /\ WF_vars(create_data_export)
    /\ WF_vars(track_fetch_remote)
    /\ WF_vars(track_sleep)

\* ---- properties ----------------------------------------------------------
KNOWN_STAGES == NON_TERMINAL \cup TERMINAL_FAILURE \cup {"FINISHED_SUCCESS"}
ObsStage(i) == StageOf(obs[i])
ObsStages == [i \in 1..Len(obs) |-> ObsStage(i)]
\* after observation i the loop fetched again, or is on its way to
FetchesAgainAfter(i) ==
    i < Len(obs) \/ (i = Len(obs) /\ pc \in {"track_sleep", "track_fetch"})
\* position of the first observed stage that is not NON_TERMINAL (0: none)
FirstOutside ==
    IF \E i \in 1..Len(obs) : ObsStage(i) \notin NON_TERMINAL
    THEN CHOOSE i \in 1..Len(obs) :
           /\ ObsStage(i) \notin NON_TERMINAL
           /\ \A j \in 1..(i - 1) : ObsStage(j) \in NON_TERMINAL
    ELSE 0
LastReport == reports[Len(reports)]
ReportKinds == {reports[i].kind : i \in 1..Len(reports)}
StatusRequests == SelectSeq(requests, LAMBDA r : r.op = "status")
TrackerEndedOnStage == tracker \in {"success", "failure", "anomaly"}

\* C1: the loop fetches again, after one sleep, exactly while the observed
\* stage is IN_QUEUE, PROCESSING or PENDING; without interruption or fetch
\* failure the number of fetches is the position of the first stage outside
\* that set, and [PROCESSING, PROCESSING, FINISHED_SUCCESS] is 3 observations
\* ending in success.
C1_FetchAgainExactlyWhileNonTerminal ==
    /\ \A i \in 1..Len(obs) :
         FetchesAgainAfter(i) => ObsStage(i) \in NON_TERMINAL
    /\ tracker \notin {"stopped", "raised"} =>
         \A i \in 1..Len(obs) :
           ObsStage(i) \in NON_TERMINAL => FetchesAgainAfter(i)
    /\ pc = "track_fetch" => nSleep = Len(obs) /\ nFetch = Len(obs)
    /\ pc = "track_sleep" => nSleep = Len(obs) - 1 /\ nFetch = Len(obs)
    /\ TrackerEndedOnStage =>
         /\ nFetch = FirstOutside
         /\ Len(obs) = FirstOutside
         /\ Len(StatusRequests) = FirstOutside
         /\ nSleep = FirstOutside - 1
    /\ (ObsStages = <<"PROCESSING", "PROCESSING", "FINISHED_SUCCESS">>) =>
         tracker = "success" /\ nFetch = 3
C1_Witness ==
    /\ ObsStages = <<"PROCESSING", "PROCESSING", "FINISHED_SUCCESS">>
    /\ tracker = "success"
    /\ nFetch = 3

\* C2: an observation of FINISHED_SUCCESS is the last one: the tracker
\* reports success and stops, with no further fetch and no sleep after it.
C2_SuccessStopsTheLoop ==
    \A i \in 1..Len(obs) :
      ObsStage(i) = "FINISHED_SUCCESS" =>
        /\ i = Len(obs)
        /\ tracker = "success"
        /\ pc = "done"
        /\ LastReport = Report("success")
        /\ nFetch = i
        /\ Len(StatusRequests) = i
        /\ nSleep = i - 1
C2_Witness ==
    /\ Len(obs) = 2
    /\ ObsStage(2) = "FINISHED_SUCCESS"
    /\ tracker = "success"

\* C3: an observation of FINISHED_FAILURE or CANCELLED ends the loop with a
\* failure report that carries the whole payload observed, never a success
\* report, and no further fetch.
C3_FailureStopsWithPayload ==
    \A i \in 1..Len(obs) :
      ObsStage(i) \in {"FINISHED_FAILURE", "CANCELLED"} =>
        /\ i = Len(obs)
        /\ tracker = "failure"
        /\ pc = "done"
        /\ LastReport = [kind |-> "failure", data |-> obs[i]]
        /\ "success" \notin ReportKinds
        /\ nFetch = i
        /\ Len(StatusRequests) = i
C3_Witness ==
    /\ Len(obs) = 2
    /\ ObsStage(2) = "CANCELLED"
    /\ obs[2].detail = "d2"
    /\ tracker = "failure"

\* C4: an observation whose stage is none of the six known ones (a payload
\* without a stage reads as UNKNOWN) ends the loop at once with an anomaly
\* report carrying the whole payload; it is never success, never slept on.
C4_UnrecognizedStopsAsAnomaly ==
    \A i \in 1..Len(obs) :
      /\ (obs[i].status = "absent" \/ ~obs[i].hasStage) =>
           ObsStage(i) = "UNKNOWN"
      /\ ObsStage(i) \notin KNOWN_STAGES =>
           /\ i = Len(obs)
           /\ tracker = "anomaly"
           /\ pc = "done"
           /\ LastReport = [kind |-> "anomaly", data |-> obs[i]]
           /\ "success" \notin ReportKinds
           /\ nFetch = i
           /\ Len(StatusRequests) = i
           /\ nSleep = i - 1
C4_Witness ==
    /\ Len(obs) = 2
    /\ ~obs[2].hasStage
    /\ tracker = "anomaly"
C4_WitnessUnlistedStage ==
    /\ Len(obs) = 1
    /\ obs[1].hasStage
    /\ obs[1].stage = "STAGE_UNSPECIFIED"
    /\ tracker = "anomaly"

\* C5: an interrupt of the tracking loop (in the sleep or in the fetch) ends
\* it at once: no request follows, no cancel request is ever sent, and the
\* outcome is "tracking stopped", not an error and not a job cancellation.
C5_InterruptStopsTrackingOnly ==
    /\ [](tracker = "stopped" =>
            /\ pc = "done"
            /\ exit = "clean"
            /\ raised = "none"
            /\ LastReport = Report("tracking_stopped")
            /\ ReportKinds \cap {"error", "api_error", "cancel_issued"} = {}
            /\ \A i \in 1..Len(requests) :
                 /\ requests[i].op # "cancel"
                 /\ requests[i].url # CancelUrl(cfg, trackId)
            /\ nFetch \in {Len(obs), Len(obs) + 1})
    /\ [][tracker = "stopped" =>
            requests' = requests /\ nFetch' = nFetch /\ reports' = reports]_vars
C5_Witness ==
    /\ tracker = "stopped"
    /\ Len(obs) = 2
    /\ nFetch = 2
    /\ nSleep = 1
C5_WitnessDuringFetch ==
    /\ tracker = "stopped"
    /\ Len(obs) = 1
    /\ nFetch = 2

\* C6: with project id, instance id or bucket missing, main reports a
\* configuration error and returns; no credentials are loaded and no request
\* is sent, whatever action the command line asks for.
C6_MissingConfigIsFatalBeforeAnyCall ==
    (\E v \in {cfg.PROJECT_ID, cfg.INSTANCE_ID, cfg.GCS_BUCKET} :
       v \in {NoneVal, <<>>}) =>
      /\ session = "none"
      /\ requests = <<>>
      /\ tracker = "idle"
      /\ pc \in {"parse_args", "check_config", "done"}
      /\ (pc = "done" /\ exit # "usage") =>
           exit = "clean" /\ reports = <<Report("config_error")>>
C6_Witness ==
    /\ cfg.PROJECT_ID = ProjectVal
    /\ cfg.INSTANCE_ID = InstanceVal
    /\ cfg.GCS_BUCKET = <<>>
    /\ args.cancel = ShortId
    /\ pc = "done"
    /\ reports = <<Report("config_error")>>

\* C7: only the action the command line names runs; a create POST is sent
\* only with --create or with no action at all, whatever id was supplied.
RequestOps == {requests[i].op : i \in 1..Len(requests)}
C7_OnlyTheSpecifiedActionRuns ==
    /\ "create" \in RequestOps => (args.create \/ NumActions(args) = 0)
    /\ args.track # NoneVal =>
         /\ RequestOps \subseteq {"status"}
         /\ tracker # "idle" => trackId = args.track
    /\ args.cancel # NoneVal =>
         /\ RequestOps \subseteq {"cancel", "status"}
         /\ tracker = "idle"
    /\ args.list => RequestOps \subseteq {"list"} /\ tracker = "idle"
    /\ args.fetch_sa => RequestOps \subseteq {"fetch_sa"} /\ tracker = "idle"

\* C8: a create request that succeeded is followed by tracking, every status
\* fetch of which goes to the normalised name of the create response; a
\* failed create request is followed by nothing.
C8_CreateChainsIntoTrack ==
    /\ created = "ok" =>
         /\ tracker # "idle"
         /\ trackId = new_id
         /\ requests[1] = Req("POST", DataExportsUrl(cfg), "create")
         /\ \A i \in 2..Len(requests) :
              requests[i] =
                Req("GET",
                    API_BASE_URL(cfg) \o SSlash \o normalize_id(cfg, new_id),
                    "status")
         /\ Len(requests) = 1 + nFetch
    /\ created = "failed" =>
         /\ tracker = "idle"
         /\ pc = "done"
         /\ Len(requests) = 1
         /\ obs = <<>>
    /\ created = "no" => new_id = NoneVal
C8_Witness ==
    /\ created = "ok"
    /\ new_id = LongId
    /\ nFetch = 2
    /\ Len(obs) = 2

\* C9: an error of a remote call (non-2xx, transport or timeout, malformed
\* response), also one raised inside the tracking loop, is caught by main
\* and reported; main then returns, no request follows and nothing but an
\* interrupt leaves main as an exception.
RemoteCallErrors ==
    {"HTTPError", "ConnectionError", "JSONDecodeError", "AttributeError",
     "TypeError"}
C9_RemoteErrorsCaughtInMain ==
    /\ [](raised \in RemoteCallErrors =>
            /\ pc = "done"
            /\ exit = "clean"
            /\ LastReport.kind \in {"api_error", "error"}
            /\ (raised = "HTTPError") <=> (LastReport.kind = "api_error")
            /\ Len(requests) >= 1 \/ raised = "TypeError")
    /\ [](exit = "uncaught" => raised = "KeyboardInterrupt")
    /\ [][raised # "none" => requests' = requests /\ raised' = raised]_vars
C9_Witness ==
    /\ tracker = "raised"
    /\ raised = "ConnectionError"
    /\ nFetch = 2
    /\ exit = "clean"
    /\ LastReport = Report("error")

\* C10 as stated: the tracker stops only on a terminal or unrecognised
\* stage or on an interrupt, never otherwise while the last observed stage
\* is non-terminal.
LastStageNonTerminal ==
    obs # <<>> /\ ObsStage(Len(obs)) \in NON_TERMINAL
C10_StopsOnlyOnStageOrInterrupt ==
    (tracker \notin {"idle", "running"} /\ LastStageNonTerminal) =>
      tracker = "stopped"
\* C10 amended: the loop has no retry count and no overall timeout; it ends
\* only on a terminal or unrecognised stage, on an interrupt, or on an
\* exception raised by the status fetch, which is not retried.
C10_StopsOnlyOnStageInterruptOrError ==
    /\ [](tracker = "running" => pc \in {"track_fetch", "track_sleep"})
    /\ []((tracker \notin {"idle", "running"}
             /\ (obs = <<>> \/ LastStageNonTerminal)) =>
            \/ tracker = "stopped"
            \/ tracker = "raised" /\ raised \in RemoteCallErrors)
    /\ [][(tracker = "running" /\ tracker' # "running") =>
            \/ /\ tracker' \in {"success", "failure", "anomaly"}
               /\ Len(obs') = Len(obs) + 1
               /\ StageOf(obs'[Len(obs')]) \notin NON_TERMINAL
            \/ tracker' = "stopped" /\ obs' = obs /\ raised' = "none"
            \/ /\ tracker' = "raised"
               /\ obs' = obs
               /\ raised' \in RemoteCallErrors]_vars
C10_Witness ==
    /\ tracker = "raised"
    /\ raised = "HTTPError"
    /\ Len(obs) = 2
    /\ ObsStage(2) = "PENDING"
C10_WitnessStillPolling ==
    /\ tracker = "running"
    /\ nFetch = MaxFetch
    /\ nSleep = MaxFetch

\* C11: a status fetch of the polling loop that fails (non-2xx, transport or
\* timeout, undecodable body) is not retried: the loop ends at that fetch,
\* no request follows it, and main reports the failure.
FetchErrors == {"HTTPError", "ConnectionError", "JSONDecodeError"}
C11_FailedFetchEndsLoop ==
    /\ []((tracker # "idle" /\ raised \in FetchErrors) =>
            /\ tracker = "raised"
            /\ pc = "done"
            /\ exit = "clean"
            /\ LastReport =
                 Report(IF raised = "HTTPError" THEN "api_error" ELSE "error")
            /\ nFetch = Len(obs) + 1
            /\ Len(StatusRequests) = nFetch)
    /\ [][tracker = "raised" =>
            requests' = requests /\ nFetch' = nFetch /\ obs' = obs]_vars
    /\ [][(tracker = "running" /\ raised' \in FetchErrors) =>
            /\ tracker' = "raised"
            /\ requests' =
                 Append(requests, Req("GET", StatusUrl(cfg, trackId), "status"))]_vars
C11_Witness ==
    /\ tracker = "raised"
    /\ raised = "HTTPError"
    /\ nFetch = 3
    /\ Len(obs) = 2
    /\ LastReport = Report("api_error")
    /\ created = "ok"

\* C12: the cancel request goes to <base>/<normalize(id)>:cancel
\* and, once it got a 2xx response, the cancel operation reports no error.
C12_CancelAckMeansNoError ==
    /\ \A i \in 1..Len(requests) :
         requests[i].op = "cancel" =>
           requests[i].url =
             API_BASE_URL(cfg) \o SSlash \o normalize_id(cfg, args.cancel)
               \o SCancel
    /\ "cancel_issued" \in ReportKinds =>
         ReportKinds \cap {"error", "api_error"} = {}
\* What cancel_data_export does instead: the cancel request goes to
\* <base>/<normalize(id)>:cancel; after a 2xx response the acknowledgment is
\* printed and one status GET for the same id follows, whose body is
\* dropped; an error is reported exactly when that status fetch fails.
C12_CancelAckThenStatusFetch ==
    /\ \A i \in 1..Len(requests) :
         requests[i].op = "cancel" =>
           /\ i = 1
           /\ requests[i].method = "POST"
           /\ requests[i].url =
                API_BASE_URL(cfg) \o SSlash \o normalize_id(cfg, args.cancel)
                  \o SCancel
    /\ "cancel_issued" \in ReportKinds =>
         /\ reports[1] = Report("cancel_issued")
         /\ tracker = "idle"
         /\ pc \in {"cancel_status", "done"}
    /\ pc = "cancel_status" => reports = <<Report("cancel_issued")>>
    /\ ("cancel_issued" \in ReportKinds /\ pc = "done") =>
         /\ Len(requests) = 2
         /\ requests[2] =
              Req("GET",
                  API_BASE_URL(cfg) \o SSlash
                    \o normalize_id(cfg, args.cancel),
                  "status")
         /\ raised = "none" =>
              reports = <<Report("cancel_issued")>> /\ exit = "clean"
         /\ (ReportKinds \cap {"error", "api_error"} # {}) <=>
              raised \in CallErrors
C12_Witness ==
    /\ args.cancel = LongId
    /\ pc = "done"
    /\ exit = "clean"
    /\ reports = <<Report("cancel_issued")>>
    /\ Len(requests) = 2

\* C13: _normalize_id is total and follows its three cases in order: without
\* "projects/" the id is put under INSTANCE_BASE_PATH/dataExports/, starting
\* with "projects/" it gets "v1alpha/" in front, otherwise it is unchanged.
C13_NormalizeThreeCases ==
    /\ (pc = "normalize_id" /\ norm = NoneVal) => ENABLED normalize_raw
    /\ norm # NoneVal =>
         /\ ~Contains(raw, ProjectsSlash) =>
              norm = INSTANCE_BASE_PATH(cfg) \o SDataExports \o SSlash \o raw
         /\ StartsWith(raw, ProjectsSlash) => norm = V1alphaSlash \o raw
         /\ (Contains(raw, ProjectsSlash) /\ ~StartsWith(raw, ProjectsSlash))
              => norm = raw
C13_Witness ==
    /\ raw = V1alphaSlash \o ProjectsSlash \o <<"a">>
    /\ norm = raw
C13_WitnessShort ==
    /\ raw = <<"p", "r", "o", "j", "e", "c", "t", "s", "a">>
    /\ norm = INSTANCE_BASE_PATH(cfg) \o SDataExports \o SSlash \o raw
C13_WitnessLong ==
    /\ raw = <<"p", "r", "o", "j", "e", "c", "t", "s", "/", "a">>
    /\ norm = V1alphaSlash \o raw

\* C18: _normalize_id is idempotent on every id: its result contains
\* "projects/" without starting with it (INSTANCE_BASE_PATH starts with
\* "v1alpha/projects/"), so normalising the result changes nothing.
C18_NormalizeIdempotent ==
    /\ StartsWith(INSTANCE_BASE_PATH(cfg), V1alphaSlash \o ProjectsSlash)
    /\ norm # NoneVal =>
         /\ Contains(norm, ProjectsSlash)
         /\ ~StartsWith(norm, ProjectsSlash)
    /\ norm2 # NoneVal => norm2 = norm
C18_Witness ==
    /\ raw = <<"a">>
    /\ norm2 # NoneVal
    /\ norm2 = norm
    /\ norm # raw

\* C14: for daysBack = d >= 0 the payload's endTime is the current UTC time
\* and startTime is exactly d days (d * 86400 seconds) earlier, both written
\* to the second as YYYY-MM-DDTHH:MM:SSZ.
DigitVal(ch) == CHOOSE i \in 0..9 : DigitChar[i + 1] = ch
Num2(str, i) == DigitVal(str[i]) * 10 + DigitVal(str[i + 1])
IsTimestamp(str) ==
    /\ Len(str) = 20
    /\ \A i \in {1, 2, 3, 4, 6, 7, 9, 10, 12, 13, 15, 16, 18, 19} :
         \E k \in 1..10 : DigitChar[k] = str[i]
    /\ str[5] = "-" /\ str[8] = "-" /\ str[11] = "T"
    /\ str[14] = ":" /\ str[17] = ":" /\ str[20] = "Z"
    /\ Num2(str, 6) \in 1..12
    /\ Num2(str, 9) \in 1..31
    /\ Num2(str, 12) \in 0..23
    /\ Num2(str, 15) \in 0..59
    /\ Num2(str, 18) \in 0..59
\* the day number and the second of the day a timestamp names
TimestampDay(str) ==
    days_from_civil(Num2(str, 1) * 100 + Num2(str, 3), Num2(str, 6),
                    Num2(str, 9))
TimestampSecond(str) ==
    Num2(str, 12) * 3600 + Num2(str, 15) * 60 + Num2(str, 18)
C14_RangeIsExactlyDays ==
    payload # NoBody =>
      /\ IsTimestamp(payload.startTime)
      /\ IsTimestamp(payload.endTime)
      /\ TimestampDay(payload.endTime) = now.ord
      /\ TimestampSecond(payload.endTime) = now.sec
      /\ (TimestampDay(payload.endTime) - TimestampDay(payload.startTime))
             * 86400
           + TimestampSecond(payload.endTime)
           - TimestampSecond(payload.startTime)
         = days * 86400

\* C15: the create payload has gcsBucket equal to the configured bucket; it
\* has includeLogTypes exactly when log_types is non-empty, then with one
\* fully qualified path per log type, in order, each ending in
\* /logTypes/<logType>; log_types itself is left as it was.
EndsWith(str, suffix) ==
    /\ Len(str) >= Len(suffix)
    /\ SubSeq(str, Len(str) - Len(suffix) + 1, Len(str)) = suffix
C15_PayloadBucketAndLogTypes ==
    /\ [](payload # NoBody =>
         /\ payload.gcsBucket = cfg.GCS_BUCKET
         /\ payload.hasIncludeLogTypes <=>
              (log_types # NoneList /\ Len(log_types) > 0)
         /\ payload.hasIncludeLogTypes =>
              /\ Len(payload.includeLogTypes) = Len(log_types)
              /\ \A i \in 1..Len(log_types) :
                   /\ EndsWith(payload.includeLogTypes[i],
                               SLogTypes \o log_types[i])
                   /\ payload.includeLogTypes[i] =
                        ProjectsSlash \o Fmt(cfg.PROJECT_ID) \o SLocations
                          \o Fmt(cfg.LOCATION) \o SInstances
                          \o Fmt(cfg.INSTANCE_ID) \o SLogTypes \o log_types[i])
    /\ [][log_types' = log_types]_vars
C15_Witness ==
    /\ log_types = <<OKTA>>
    /\ cfg.GCS_BUCKET = BucketVal
    /\ days = 1
    /\ payload.hasIncludeLogTypes
    /\ Len(payload.includeLogTypes) = 1
    /\ EndsWith(payload.includeLogTypes[1],
                <<"/", "l", "o", "g", "T", "y", "p", "e", "s", "/", "O", "K",
                  "T", "A">>)
    /\ payload.gcsBucket = BucketVal
C15_WitnessTwo ==
    /\ log_types = <<WINEVTLOG, OKTA>>
    /\ payload.hasIncludeLogTypes
    /\ Len(payload.includeLogTypes) = 2
C15_WitnessEmpty ==
    /\ log_types = <<>>
    /\ payload # NoBody
    /\ ~payload.hasIncludeLogTypes

\* C16: after a non-2xx response the report carries the remote detail: the
\* JSON body re-serialised when the body is JSON (a 403 with
\* {"error":{"message":"forbidden"}} shows "forbidden"), the raw body text
\* otherwise; it is never the bare failure alone.
JsonBodies == {BodyForbidden, BodyQuota, BodyScalar}
StringsOf(ts) == SelectSeq(ts, LAMBDA tok : tok \in StringTokens)
Tokens(ts) == {ts[i] : i \in 1..Len(ts)}
C16_HttpErrorShowsRemoteDetail ==
    /\ raised = "HTTPError" =>
         /\ LastReport = Report("api_error")
         /\ errDetail.printed # <<>>
         /\ errDetail.body \in JsonBodies =>
              /\ errDetail.printed[1] = "Details: "
              /\ StringsOf(errDetail.printed) = StringsOf(errDetail.body)
         /\ errDetail.body \notin JsonBodies =>
              errDetail.printed = <<"API Response: ">> \o errDetail.body
         /\ errDetail.body = BodyForbidden =>
              "\"forbidden\"" \in Tokens(errDetail.printed)
    /\ raised # "HTTPError" => errDetail = NoDetail
C16_Witness ==
    /\ raised = "HTTPError"
    /\ args.list
    /\ errDetail.body = BodyForbidden
    /\ "\"forbidden\"" \in Tokens(errDetail.printed)
C16_WitnessRawText ==
    /\ raised = "HTTPError"
    /\ tracker = "raised"
    /\ errDetail.body = BodyHtml
    /\ errDetail.printed = <<"API Response: ", "<html>", "Forbidden", "</html>">>

\* C17: if the remote job comes to rest on a stage outside IN_QUEUE,
\* PROCESSING, PENDING, then under fair scheduling of the fetch and wait
\* steps a running tracking loop eventually stops running, and so an
\* invocation that is at its create step eventually finishes.
C17_TrackingTerminates ==
    (<>[](remote \notin NON_TERMINAL)) =>
        /\ (tracker = "running") ~> (tracker # "running" /\ pc = "done")
        /\ (pc = "create_data_export") ~> (pc = "done")
C17_Witness ==
    /\ args.create
    /\ created = "ok"
    /\ pc = "done"
    /\ tracker \notin {"idle", "running"}
    /\ Len(obs) >= 2
    /\ ObsStage(1) \in NON_TERMINAL
    /\ ObsStage(Len(obs)) \notin NON_TERMINAL
    /\ remote \notin NON_TERMINAL

\* C19: an invocation sends at most one state-changing request, the create
\* POST or the cancel POST; it precedes every status fetch; every status
\* fetch is a GET; and once the tracker runs, whatever ends its loop, the only
\* request ever added is a GET of the status.
StateChanging(r) == r.method = "POST" \/ r.op \in {"create", "cancel"}
StateChangingAt == {i \in 1..Len(requests) : StateChanging(requests[i])}
StatusAt == {i \in 1..Len(requests) : requests[i].op = "status"}
C19_OneStateChangingRequestFirst ==
    /\ [](/\ Cardinality(StateChangingAt) <= 1
          /\ \A i \in StatusAt :
               /\ requests[i].method = "GET"
               /\ \A j \in StateChangingAt : j < i)
    /\ [][tracker # "idle" =>
            \/ requests' = requests
            \/ \E r \in [method : {"GET"}, url : {StatusUrl(cfg, trackId)},
                         op : {"status"}] :
                 requests' = Append(requests, r)]_vars
C19_Witness ==
    /\ args.create
    /\ tracker \in {"stopped", "raised", "success", "failure", "anomaly"}
    /\ Len(requests) >= 3
    /\ requests[1].op = "create"
    /\ requests[1].method = "POST"
    /\ StateChangingAt = {1}
    /\ StatusAt = 2..Len(requests)
C19_WitnessCancel ==
    /\ pc = "done"
    /\ exit = "clean"
    /\ Len(requests) = 2
    /\ requests[1].op = "cancel"
    /\ requests[1].method = "POST"
    /\ requests[2].op = "status"
    /\ requests[2].method = "GET"
====
